---- MODULE Spec2Model ----
(***************************************************************************)
(* Overlay node coordinator of simple-p2p-docstore.                        *)
(*                                                                         *)
(*   Spec         the browser node's event loop (wasm_bindings.rs):        *)
(*                the command queue, the swarm event stream, SharedState   *)
(*                and the Kademlia routing table it feeds.                 *)
(*   SpecFair     the same loop without an iteration budget, under the     *)
(*                fairness of futures::select!.                            *)
(*   SpecCompose  NodeBuilder and build_behaviours (node.rs, behaviour/).  *)
(*   SpecBoot     the server's bootstrap block and event loop (server.rs). *)
(*   SpecIdentity load_or_create_identity and main's use of it, over       *)
(*                restarts of the process (server.rs).                     *)
(*   SpecNode     WasmNode from its construction on: the handle's methods, *)
(*                their returns and the event channel (wasm_bindings.rs).  *)
(*   SpecConsumer the same node with overlapping next_event calls followed *)
(*                step by step (wasm_bindings.rs).                         *)
(*   SpecObserver the same node with one consumer and a caller of          *)
(*                find_peer (wasm_bindings.rs).                            *)
(***************************************************************************)
EXTENDS Integers, Sequences, FiniteSets, Bags, TLC

VARIABLES
    cmd_queue,       \* mpsc::unbounded::<Command>: commands sent, not yet dequeued
    swarm_ready,     \* the swarm stream has an event ready for the next poll
    shared_state,    \* SharedState behind shared_state_clone
    routing,         \* Kademlia routing table: bag of <<peer, address>> entries
    conns,           \* swarm: number of open connections per peer
    queries,         \* Kademlia: targets of the closest-peers queries in progress
    steps,           \* loop iterations counted against MaxSteps (NoBudget: not counted)
    last_op,         \* history: what the last loop iteration handled
    emitted,         \* history: events passed to event_sender by the last iteration
    last_conn,       \* history: last connection event emitted per peer
    ever_connected,  \* history: peers for which a connection was ever established
    nb,              \* NodeBuilder, the build target and the last module set built
    boot,            \* the server's main from the bootstrap block on
    ident,           \* the key file and the process running load_or_create_identity
    node             \* WasmNode: its construction, its channels' ends, its last return

loopVars == <<cmd_queue, swarm_ready, shared_state, routing, conns, queries,
              steps, last_op, emitted, last_conn, ever_connected>>

vars == <<loopVars, nb, boot, ident, node>>

----------------------------------------------------------------------------
(* Bounds of the model *)

MaxQueue == 2        \* commands waiting in cmd_queue
MaxConns == 2        \* open connections per peer
MaxSteps == 4        \* loop iterations in Spec

NoBudget == 0 - 1

Peers == {"p1", "p2"}
Addrs == {"a1", "a2"}

\* Closest-peers queries in progress or waiting in the queue.
MaxQueries == MaxQueue

\* A closest-peers result lists distinct peers.
MaxResult == Cardinality(Peers)

\* Payload bytes: one valid UTF-8 byte and one byte that is not valid UTF-8.
GoodByte == "h"
BadByte == "xFF"
ReplacementChar == "uFFFD"
Payloads == {<<GoodByte>>, <<BadByte>>, <<GoodByte, BadByte>>}

\* What publish_update(data: String) can carry: a String is valid UTF-8.
Strings == {<<GoodByte>>}

NoDup(s) == \A i, j \in 1..Len(s) : i # j => s[i] # s[j]

SeqsUpTo(S, n) == UNION {[1..k -> S] : k \in 0..n}

\* Address lists a peer reports (identify) or a query result carries.
AddrLists == {<<>>, <<"a1">>, <<"a1", "a2">>}

----------------------------------------------------------------------------
(* Conversions *)

\* PeerId::to_string / Multiaddr::to_string: the textual form, a different
\* value from the binary one.
to_string(x) == "s:" \o x

\* String::from_utf8_lossy: invalid bytes are replaced, the rest kept.
FromUtf8Lossy(bytes) ==
    [i \in 1..Len(bytes) |->
        IF bytes[i] = BadByte THEN ReplacementChar ELSE bytes[i]]

AddrStrings(addrs) == [i \in 1..Len(addrs) |-> to_string(addrs[i])]

----------------------------------------------------------------------------
(* HashMap<String, Vec<String>> and Vec<String> *)

Insert(m, k, v) == [x \in (DOMAIN m) \cup {k} |-> IF x = k THEN v ELSE m[x]]

Remove(m, k) == [x \in (DOMAIN m) \ {k} |-> m[x]]

Contains(s, x) == \E i \in 1..Len(s) : s[i] = x

EmptyMap == [x \in {} |-> <<>>]

\* docstore_topic()
DocstoreTopic == "docstore/v1/updates"

\* SharedState as WasmNode::new creates it.
InitialSharedState ==
    [listen_addrs |-> <<>>,
     connected_peers |-> EmptyMap,
     discovered_peers |-> EmptyMap,
     subscriptions |-> <<DocstoreTopic>>,
     relays |-> <<>>]

----------------------------------------------------------------------------
(* Domain events (enum Event) *)

Connected(p) == [type |-> "Connected", peer_id |-> to_string(p)]
Disconnected(p) == [type |-> "Disconnected", peer_id |-> to_string(p)]
MessageReceived(p, data) ==
    [type |-> "MessageReceived", peer_id |-> to_string(p), data |-> data]
MessagePublished(id) == [type |-> "MessagePublished", msg_id |-> id]
PeerDiscovery(p, addrs) ==
    [type |-> "PeerDiscovery", peer_id |-> to_string(p), addrs |-> addrs]
ErrorEvent(msg) == [type |-> "Error", msg |-> msg]

----------------------------------------------------------------------------
(* External collaborators, at their interface *)

\* gossipsub publish(topic, data): a message id, or a PublishError. The mesh is
\* not modelled: either outcome is possible in every state, zero peers included.
PublishResults ==
    {[ok |-> TRUE, msg_id |-> "m1"],
     [ok |-> FALSE, err |-> "InsufficientPeers"]}

\* The routing table keeps, per peer, the addresses known for it.
NoEntries == EmptyBag
RoutingHas(rt, p, a) == BagIn(<<p, a>>, rt)

\* An insertion that does not look for the address first.
AddAddressAgain(rt, p, a) == rt (+) SetToBag({<<p, a>>})

\* kademlia.add_address(peer, addr): an address the peer's entry already holds
\* is not added again
AddAddress(rt, p, a) ==
    IF RoutingHas(rt, p, a) THEN rt ELSE rt (+) SetToBag({<<p, a>>})

RECURSIVE AddAddresses(_, _, _)
AddAddresses(rt, p, addrs) ==
    IF addrs = <<>> THEN rt
    ELSE AddAddresses(AddAddress(rt, p, Head(addrs)), p, Tail(addrs))

\* PeerInfo values of GetClosestPeersOk.peers: distinct peers, each with the
\* addresses the query learned for it.
PeerInfos == [peer_id : Peers, addrs : AddrLists]

QueryResults ==
    {r \in SeqsUpTo(PeerInfos, MaxResult) :
        \A i, j \in 1..Len(r) : i # j => r[i].peer_id # r[j].peer_id}

ResultPeers(r) == {r[i].peer_id : i \in 1..Len(r)}

\* A closest-peers result holds only peers that answered the query, and a peer
\* answers over a connection the swarm reported established before.
ResultPossible(r) == ResultPeers(r) \subseteq ever_connected

RemoveAt(s, i) == [j \in 1..(Len(s) - 1) |-> IF j < i THEN s[j] ELSE s[j + 1]]

----------------------------------------------------------------------------
(* Role-based composition: node.rs, behaviour/ *)

\* enum NodeRole
Roles == {"Client", "Relay", "FullNode"}

\* cfg(target_arch): the build the crate is compiled for
Targets == {"native", "wasm32"}

MaxBootstrap == 3    \* bootstrap addresses added to one builder

NoModules == [built |-> FALSE]

\* NodeBuilder::new
NodeBuilderNew(role) == [role |-> role, bootstrap_peers |-> <<>>]

\* the `mode` match of build_behaviours
KadModeFullNodeClient(role) == IF role = "Relay" THEN "Server" ELSE "Client"
KadMode(role) == IF role = "Client" THEN "Client" ELSE "Server"

\* make_docstore_gossipsub
make_docstore_gossipsub ==
    [validation_mode |-> "Strict", heartbeat_secs |-> 1, authenticity |-> "Signed"]

\* make_peer_dht: (ping, identify, kademlia)
make_peer_dht(mode) ==
    [ping |-> "default",
     identify |-> "simple-p2p-docstore/0.1",
     kademlia |-> [mode |-> mode, store |-> "MemoryStore"]]

\* make_relay_behaviour
make_relay_behaviour == [config |-> "default"]

\* the `relay_beh` match of the native build_behaviours
RelayFor(role) ==
    IF role \in {"Relay", "FullNode"}
    THEN [some |-> TRUE, relay |-> make_relay_behaviour]
    ELSE [some |-> FALSE]

\* build_behaviours, cfg(not(target_arch = "wasm32")): a 5-tuple
build_behaviours_native(b) ==
    LET dht == make_peer_dht(KadMode(b.role)) IN
    [built |-> TRUE, ping |-> dht.ping, gossipsub |-> make_docstore_gossipsub,
     identify |-> dht.identify, kademlia |-> dht.kademlia,
     relay |-> RelayFor(b.role)]

\* build_behaviours, cfg(target_arch = "wasm32"): a 4-tuple, no relay slot
build_behaviours_wasm32(b) ==
    LET dht == make_peer_dht(KadMode(b.role)) IN
    [built |-> TRUE, ping |-> dht.ping, gossipsub |-> make_docstore_gossipsub,
     identify |-> dht.identify, kademlia |-> dht.kademlia]

ComposeFrame == UNCHANGED <<loopVars, boot, ident, node>>

NewBuilder(role) ==
    /\ nb' = [nb EXCEPT !.builder = NodeBuilderNew(role), !.modules = NoModules]
    /\ ComposeFrame

\* NodeBuilder::add_bootstrap
add_bootstrap(addr) ==
    /\ Len(nb.builder.bootstrap_peers) < MaxBootstrap
    /\ nb' = [nb EXCEPT !.builder.bootstrap_peers = Append(@, addr)]
    /\ ComposeFrame

\* NodeBuilder::build_behaviours, as compiled for nb.target
build_behaviours ==
    /\ nb' = [nb EXCEPT !.modules =
                IF nb.target = "wasm32"
                THEN build_behaviours_wasm32(nb.builder)
                ELSE build_behaviours_native(nb.builder)]
    /\ ComposeFrame

NbIdle == [builder |-> NodeBuilderNew("Client"), target |-> "wasm32", modules |-> NoModules]

ComposeNext ==
    \/ \E role \in Roles : NewBuilder(role)
    \/ \E a \in Addrs : add_bootstrap(a)
    \/ build_behaviours

----------------------------------------------------------------------------
(* Bootstrap: main of server.rs, from the BOOTSTRAP_PEERS block on *)

MaxSeeds == 3        \* comma-separated pieces of BOOTSTRAP_PEERS

\* A multiaddr is a sequence of protocol components; its text is the same
\* sequence, possibly with whitespace around it and with text that is no
\* protocol.
Comp(proto, arg) == [proto |-> proto, arg |-> arg]
WS == Comp("whitespace", "")
Junk == Comp("junk", "")

AddrNoPeer == <<Comp("ip4", "h2"), Comp("tcp", "")>>
AddrListen == <<Comp("ip4", "h1"), Comp("tcp", "")>>
AddrWithPeer == <<Comp("ip4", "h1"), Comp("tcp", ""), Comp("p2p", "p1")>>
AddrCircuit ==
    <<Comp("ip4", "h1"), Comp("p2p", "p1"), Comp("p2p-circuit", ""), Comp("p2p", "p2")>>
AddrViaRelay == <<Comp("ip4", "h1"), Comp("p2p", "p1"), Comp("p2p-circuit", "")>>

\* The pieces between the commas of BOOTSTRAP_PEERS.
SeedPieces ==
    {<<WS>>, <<Junk>>, AddrWithPeer, <<WS>> \o AddrNoPeer, AddrCircuit,
     AddrViaRelay \o <<WS>>}

\* Addresses a peer reports about itself in identify.
ListenAddrLists == {<<>>, <<AddrListen>>, <<AddrListen, AddrNoPeer>>}

\* str::trim
RECURSIVE TrimStart(_)
TrimStart(s) == IF s # <<>> /\ Head(s) = WS THEN TrimStart(Tail(s)) ELSE s

RECURSIVE TrimEnd(_)
TrimEnd(s) ==
    IF s # <<>> /\ s[Len(s)] = WS THEN TrimEnd(SubSeq(s, 1, Len(s) - 1)) ELSE s

Trim(s) == TrimEnd(TrimStart(s))

\* str::parse::<Multiaddr>
ParseMultiaddr(s) ==
    IF \E k \in 1..Len(s) : s[k].proto \in {"junk", "whitespace"}
    THEN [ok |-> FALSE]
    ELSE [ok |-> TRUE, addr |-> s]

\* the `for protocol in addr.iter()` loop: the last P2p component wins
RECURSIVE LastP2p(_, _)
LastP2p(addr, acc) ==
    IF addr = <<>> THEN acc
    ELSE LastP2p(Tail(addr),
                 IF Head(addr).proto = "p2p"
                 THEN [some |-> TRUE, pid |-> Head(addr).arg]
                 ELSE acc)

ExtractPeerIdAtEnd(addr) ==
    IF addr # <<>> /\ addr[Len(addr)].proto = "p2p"
    THEN [some |-> TRUE, pid |-> addr[Len(addr)].arg]
    ELSE [some |-> FALSE]
ExtractPeerId(addr) == LastP2p(addr, [some |-> FALSE])

\* kademlia.bootstrap(): refused when the routing table knows no peer
KademliaBootstrap(kad) == IF BagToSet(kad) = {} THEN "NoKnownPeers" ELSE "Ok"

BootFrame == UNCHANGED <<loopVars, nb, ident, node>>

\* A for loop that gives up at the first piece that does not parse.
ProcessSeedOrStop(dial_ok) ==
    /\ boot.pc = "seeds"
    /\ boot.i <= Len(boot.env.pieces)
    /\ LET p == Trim(boot.env.pieces[boot.i])
           parsed == ParseMultiaddr(p)
           pid == ExtractPeerId(parsed.addr)
       IN
       boot' =
          IF p = <<>> THEN [boot EXCEPT !.i = @ + 1]
          ELSE IF ~parsed.ok
          THEN [boot EXCEPT !.i = Len(boot.env.pieces) + 1,
                            !.invalid = Append(@, boot.i)]
          ELSE IF pid.some
          THEN [boot EXCEPT
                  !.i = @ + 1,
                  !.kad = AddAddress(@, pid.pid, parsed.addr),
                  !.adds = Append(@, [seed |-> boot.i, peer |-> pid.pid,
                                      addr |-> parsed.addr])]
          ELSE [boot EXCEPT
                  !.i = @ + 1,
                  !.dials = Append(@, [seed |-> boot.i, addr |-> parsed.addr,
                                       ok |-> dial_ok])]
    /\ BootFrame

\* One piece of `peers.split(',').map(trim).filter(non-empty)` and the body of
\* the for loop for it.
ProcessSeed(dial_ok) ==
    /\ boot.pc = "seeds"
    /\ boot.i <= Len(boot.env.pieces)
    /\ LET p == Trim(boot.env.pieces[boot.i])
           parsed == ParseMultiaddr(p)
           pid == ExtractPeerId(parsed.addr)
       IN
       boot' =
          IF p = <<>> THEN [boot EXCEPT !.i = @ + 1]
          ELSE IF ~parsed.ok
          THEN [boot EXCEPT !.i = @ + 1, !.invalid = Append(@, boot.i)]
          ELSE IF pid.some
          THEN [boot EXCEPT
                  !.i = @ + 1,
                  !.kad = AddAddress(@, pid.pid, parsed.addr),
                  !.adds = Append(@, [seed |-> boot.i, peer |-> pid.pid,
                                      addr |-> parsed.addr])]
          ELSE [boot EXCEPT
                  !.i = @ + 1,
                  !.dials = Append(@, [seed |-> boot.i, addr |-> parsed.addr,
                                       ok |-> dial_ok])]
    /\ BootFrame

\* A start-up that gives up when the refresh cannot be issued.
KickOffBootstrapOrExit ==
    /\ boot.pc = "seeds"
    /\ boot.i > Len(boot.env.pieces)
    /\ boot' = [boot EXCEPT
                  !.pc = IF KademliaBootstrap(boot.kad) = "Ok" THEN "loop" ELSE "exited",
                  !.refreshes = Append(@, KademliaBootstrap(boot.kad))]
    /\ BootFrame

\* "Kick off bootstrap query", after the for loop
KickOffBootstrap ==
    /\ boot.pc = "seeds"
    /\ boot.i > Len(boot.env.pieces)
    /\ boot' = [boot EXCEPT
                  !.pc = "loop",
                  !.refreshes = Append(@, KademliaBootstrap(boot.kad))]
    /\ BootFrame

\* BOOTSTRAP_PEERS is not set: the block is skipped
SkipBootstrap ==
    /\ boot.pc = "start"
    /\ ~boot.env.set
    /\ boot' = [boot EXCEPT !.pc = "loop"]
    /\ BootFrame

EnterBootstrap ==
    /\ boot.pc = "start"
    /\ boot.env.set
    /\ boot' = [boot EXCEPT !.pc = "seeds"]
    /\ BootFrame

\* server loop, identify::Event::Received arm
ServerOnIdentifyReceived(p, listen_addrs) ==
    /\ boot.pc = "loop"
    /\ boot' = [boot EXCEPT !.kad = AddAddresses(@, p, listen_addrs)]
    /\ BootFrame

\* server loop, every other arm: the event is printed
ServerOnOtherEvent ==
    /\ boot.pc = "loop"
    /\ UNCHANGED boot
    /\ BootFrame

BootEnvs ==
    {[set |-> FALSE, pieces |-> <<>>]}
        \cup {[set |-> TRUE, pieces |-> ps] : ps \in SeqsUpTo(SeedPieces, MaxSeeds)}

BootStart(env) ==
    [pc |-> "start", env |-> env, i |-> 1, kad |-> NoEntries, adds |-> <<>>,
     dials |-> <<>>, invalid |-> <<>>, refreshes |-> <<>>]

BootIdle == [BootStart([set |-> FALSE, pieces |-> <<>>]) EXCEPT !.pc = "off"]

BootNext ==
    \/ EnterBootstrap
    \/ SkipBootstrap
    \/ \E dial_ok \in BOOLEAN : ProcessSeed(dial_ok)
    \/ KickOffBootstrap
    \/ \E p \in Peers, as \in ListenAddrLists : ServerOnIdentifyReceived(p, as)
    \/ ServerOnOtherEvent

----------------------------------------------------------------------------
(* Identity store: load_or_create_identity and its caller, server.rs *)

MaxKeys == 2         \* keypairs generated over all runs

\* The n-th keypair generate_ed25519 returns; "k0" is a keypair made elsewhere.
KeyName(n) == "k" \o ToString(n)
Keys == {KeyName(n) : n \in 0..MaxKeys}

NoKey == "none"

\* Keypair::to_protobuf_encoding: a header and the key material
KeyHeader == "ed25519"
Encode(k) == <<KeyHeader, k>>

\* A decoder that takes missing key material for that of keypair "k0".
DecodeLenient(bytes) ==
    IF bytes # <<>> /\ bytes[1] = KeyHeader
    THEN [ok |-> TRUE,
          key |-> IF Len(bytes) = 2 /\ bytes[2] \in Keys THEN bytes[2] ELSE KeyName(0)]
    ELSE [ok |-> FALSE]

\* Keypair::from_protobuf_encoding
Decode(bytes) ==
    IF Len(bytes) = 2 /\ bytes[1] = KeyHeader /\ bytes[2] \in Keys
    THEN [ok |-> TRUE, key |-> bytes[2]]
    ELSE [ok |-> FALSE]

\* PeerId::from(key.public())
PeerIdOf(k) == "peer-of-" \o k

OwnerOnly == "0600"
WorldReadable == "0644"

NoFile == [exists |-> FALSE, bytes |-> <<>>, mode |-> OwnerOnly]
FileOf(bytes, mode) == [exists |-> TRUE, bytes |-> bytes, mode |-> mode]

\* Contents that are no encoding of a keypair: empty, cut short, garbage.
CorruptContents == {<<>>, <<KeyHeader>>, <<"garbage", "k0">>}

\* What may be at the path when the process is not running.
OutsideFiles ==
    {NoFile, FileOf(Encode(KeyName(0)), OwnerOnly)}
        \cup {FileOf(c, m) : c \in CorruptContents, m \in {OwnerOnly, WorldReadable}}

IdentFrame == UNCHANGED <<loopVars, nb, boot, node>>

ReturnErr(st, e) ==
    [st EXCEPT !.pc = "returned", !.result = [ok |-> FALSE, err |-> e]]

ReturnOk(st, k) ==
    [st EXCEPT !.pc = "returned", !.result = [ok |-> TRUE, key |-> k], !.stable = k]

\* What a process starts with: nothing loaded, nothing returned.
FreshRun(st) ==
    [st EXCEPT
        !.kp = NoKey, !.generated = FALSE, !.read_done = FALSE,
        !.result = [ok |-> FALSE, err |-> "none"], !.local_peer_id = NoKey,
        !.entry_file = st.file, !.before = st.stable, !.entry_cut = st.cut_by]

\* main calls load_or_create_identity(&key_path_buf)
StartProcess ==
    /\ ident.pc = "idle"
    /\ ident' = [FreshRun(ident) EXCEPT !.pc = "check"]
    /\ IdentFrame

\* if path.exists()
CheckExists ==
    /\ ident.pc = "check"
    /\ ident' = [ident EXCEPT
                   !.pc = IF ident.file.exists THEN "open_read" ELSE "generate"]
    /\ IdentFrame

\* OpenOptions::new().read(true).open(path) ... ?
OpenRead(ok) ==
    /\ ident.pc = "open_read"
    /\ ident' = IF ok THEN [ident EXCEPT !.pc = "read"] ELSE ReturnErr(ident, "open")
    /\ IdentFrame

ReadAndDecodeOrFail(ok) ==
    /\ ident.pc = "read"
    /\ LET st == [ident EXCEPT !.read_done = ok]
           kp == Decode(ident.file.bytes)
       IN
       ident' = IF ~ok THEN ReturnErr(st, "read")
                ELSE IF kp.ok THEN ReturnOk(st, kp.key)
                ELSE ReturnErr(st, "decode")
    /\ IdentFrame

\* read_to_end ... ?, then from_protobuf_encoding: Ok returns the keypair,
\* anything else warns and falls through to generation
ReadAndDecode(ok) ==
    /\ ident.pc = "read"
    /\ LET st == [ident EXCEPT !.read_done = ok]
           kp == Decode(ident.file.bytes)
       IN
       ident' = IF ~ok THEN ReturnErr(st, "read")
                ELSE IF kp.ok THEN ReturnOk(st, kp.key)
                ELSE [st EXCEPT !.pc = "generate"]
    /\ IdentFrame

\* generate_ed25519 and to_protobuf_encoding
GenerateKeypair ==
    /\ ident.pc = "generate"
    /\ ident.next_key <= MaxKeys
    /\ ident' = [ident EXCEPT
                   !.pc = "create_dir",
                   !.kp = KeyName(ident.next_key),
                   !.generated = TRUE,
                   !.next_key = @ + 1]
    /\ IdentFrame

\* create_dir_all(parent) ... ?
CreateDirAll(ok) ==
    /\ ident.pc = "create_dir"
    /\ ident' = IF ok THEN [ident EXCEPT !.pc = "open_write"]
                ELSE ReturnErr(ident, "create_dir")
    /\ IdentFrame

\* opts.create(true).write(true).truncate(true), mode(0o600); open ... ?
\* The mode is given to a file the call creates; a file already there is
\* truncated and keeps its mode.
OpenWrite(ok) ==
    /\ ident.pc = "open_write"
    /\ ident' =
          IF ok
          THEN [ident EXCEPT
                  !.pc = "write",
                  !.cut_by = ident.kp,
                  !.file = FileOf(<<>>, IF ident.file.exists
                                        THEN ident.file.mode ELSE OwnerOnly)]
          ELSE ReturnErr(ident, "create_file")
    /\ IdentFrame

WriteOnce(n) ==
    /\ ident.pc = "write"
    /\ n \in 0..Len(Encode(ident.kp))
    /\ ident' = ReturnOk([ident EXCEPT !.file.bytes = SubSeq(Encode(ident.kp), 1, n)],
                         ident.kp)
    /\ IdentFrame

\* write_all(&bytes) ... ?: n bytes reach the file; fewer than all is an error
WriteAll(n) ==
    /\ ident.pc = "write"
    /\ LET bytes == Encode(ident.kp) IN
       /\ n \in 0..Len(bytes)
       /\ ident' =
             IF n = Len(bytes)
             THEN ReturnOk([ident EXCEPT !.file.bytes = bytes, !.cut_by = NoKey],
                           ident.kp)
             ELSE ReturnErr([ident EXCEPT !.file.bytes = SubSeq(bytes, 1, n)],
                            "write_file")
    /\ IdentFrame

\* main: let local_key = load_or_create_identity(..)?; the peer id is derived
\* and startup goes on, or main returns the error
MainAfterIdentity ==
    /\ ident.pc = "returned"
    /\ ident' = IF ident.result.ok
                THEN [ident EXCEPT !.pc = "running",
                                   !.local_peer_id = PeerIdOf(ident.result.key)]
                ELSE [ident EXCEPT !.pc = "fatal"]
    /\ IdentFrame

\* The process ends (it is stopped at any point, or main has returned).
ProcessExit ==
    /\ ident.pc # "idle"
    /\ ident' = [FreshRun(ident) EXCEPT !.pc = "idle"]
    /\ IdentFrame

\* Someone else changes what is at the path while the process is not running.
OutsideModification(f) ==
    /\ ident.pc = "idle"
    /\ f # ident.file
    /\ ident' = FreshRun([ident EXCEPT !.file = f, !.stable = NoKey, !.cut_by = NoKey])
    /\ IdentFrame

IdentStart(f) ==
    [pc |-> "idle", file |-> f, kp |-> NoKey, generated |-> FALSE,
     read_done |-> FALSE, result |-> [ok |-> FALSE, err |-> "none"], local_peer_id |-> NoKey,
     next_key |-> 1, entry_file |-> f, stable |-> NoKey, before |-> NoKey,
     cut_by |-> NoKey, entry_cut |-> NoKey]

IdentIdle == [IdentStart(NoFile) EXCEPT !.pc = "off"]

IdentNext ==
    \/ StartProcess
    \/ CheckExists
    \/ \E ok \in BOOLEAN : OpenRead(ok)
    \/ \E ok \in BOOLEAN : ReadAndDecode(ok)
    \/ GenerateKeypair
    \/ \E ok \in BOOLEAN : CreateDirAll(ok)
    \/ \E ok \in BOOLEAN : OpenWrite(ok)
    \/ \E n \in 0..2 : WriteAll(n)
    \/ MainAfterIdentity
    \/ ProcessExit
    \/ \E f \in OutsideFiles : OutsideModification(f)

----------------------------------------------------------------------------
(* The node handle: WasmNode::publish_update, WasmNode::find_peer *)

Publish(data) == [type |-> "Publish", data |-> data]
FindPeer(pid) == [type |-> "FindPeer", pid |-> pid]

\* Strings a caller may pass to find_peer; the last one is no peer id.
PeerIdStrings == {to_string(p) : p \in Peers} \cup {"not-a-peer-id"}

\* str::parse::<PeerId>
ParsePeerId(s) ==
    IF \E p \in Peers : to_string(p) = s
    THEN [ok |-> TRUE, pid |-> CHOOSE p \in Peers : to_string(p) = s]
    ELSE [ok |-> FALSE]

FindPeerCount(q) == Cardinality({i \in 1..Len(q) : q[i].type = "FindPeer"})

ApiUnchanged ==
    UNCHANGED <<swarm_ready, shared_state, routing, conns, queries, steps,
                last_op, emitted, last_conn, ever_connected, nb, boot, ident>>

NoReturn == [call |-> "none"]

\* Callers of next_event whose calls may be pending at the same time.
Callers == {"c1", "c2"}

\* The consumer's side when it is not followed call by call: nobody holds
\* event_receiver's lock, nothing is logged.
NoConsumer ==
    [logged |-> FALSE, callers |-> [c \in Callers |-> "idle"], lock |-> "free",
     sent |-> <<>>, got |-> <<>>]

\* A handle whose loop runs and whose returns and event channel are not
\* followed.
NodeDetached ==
    [pc |-> "running", alive |-> TRUE, traced |-> FALSE, arg |-> <<>>,
     dial |-> "ok", events |-> <<>>, ret |-> NoReturn, dropped_at |-> NoBudget,
     consumer |-> NoConsumer]

\* server_multiaddr values: no multiaddr, an address, an address with a peer id
ServerAddrs == {<<Junk>>, AddrListen, AddrWithPeer}

NodeNew(arg) ==
    [pc |-> "new", alive |-> FALSE, traced |-> TRUE, arg |-> arg,
     dial |-> "none", events |-> <<>>, ret |-> NoReturn, dropped_at |-> NoBudget,
     consumer |-> NoConsumer]

\* PeerId::from(local_key.public())
LocalPeerId == "p0"

\* What a method of the handle returned.
Ok(call, value) == [call |-> call, ok |-> TRUE, value |-> value]
Err(call, msg) == [call |-> call, ok |-> FALSE, err |-> msg]

Returned(r) == IF node.traced THEN [node EXCEPT !.ret = r] ELSE node

\* UnboundedSender::unbounded_send: the message is queued unless the receiver
\* is gone
UnboundedSend(queue, msg, receiver_alive) ==
    IF receiver_alive THEN [ok |-> TRUE, queue |-> Append(queue, msg)]
    ELSE [ok |-> FALSE, queue |-> queue]

\* WasmNode::new from the parse of server_multiaddr on: an address that does
\* not parse or that the swarm refuses to dial is returned as an error, and
\* the loop is spawned only after the dial was accepted.
WasmNodeNew(dial_ok) ==
    /\ node.pc = "new"
    /\ node' =
          IF ~ParseMultiaddr(node.arg).ok
          THEN [node EXCEPT !.pc = "failed", !.ret = Err("new", "invalid multiaddr")]
          ELSE IF ~dial_ok
          THEN [node EXCEPT !.pc = "failed", !.dial = "failed",
                            !.ret = Err("new", "dial error")]
          ELSE [node EXCEPT !.pc = "running", !.dial = "ok", !.alive = TRUE,
                            !.ret = Ok("new", "WasmNode")]
    /\ UNCHANGED <<loopVars, nb, boot, ident>>

\* A publish_update that sends on a channel with room for one command.
publish_updateBounded(data) ==
    /\ Len(cmd_queue) < MaxQueue
    /\ node.pc = "running"
    /\ LET sent == UnboundedSend(cmd_queue, Publish(data),
                                 node.alive /\ cmd_queue = <<>>) IN
       /\ cmd_queue' = sent.queue
       /\ node' = Returned(IF sent.ok THEN Ok("publish_update", "unit")
                           ELSE Err("publish_update", "Failed to send command"))
    /\ ApiUnchanged

\* String::into_bytes keeps the bytes.
publish_update(data) ==
    /\ Len(cmd_queue) < MaxQueue
    /\ node.pc = "running"
    /\ LET sent == UnboundedSend(cmd_queue, Publish(data), node.alive) IN
       /\ cmd_queue' = sent.queue
       /\ node' = Returned(IF sent.ok THEN Ok("publish_update", "unit")
                           ELSE Err("publish_update", "Failed to send command"))
    /\ ApiUnchanged

find_peer(s) ==
    /\ Len(cmd_queue) < MaxQueue
    /\ FindPeerCount(cmd_queue) + Len(queries) < MaxQueries
    /\ node.pc = "running"
    /\ LET r == ParsePeerId(s)
           sent == UnboundedSend(cmd_queue, FindPeer(r.pid), node.alive)
       IN
       IF ~r.ok
       THEN /\ UNCHANGED cmd_queue
            /\ node' = Returned(Err("find_peer", "invalid peer id"))
       ELSE /\ cmd_queue' = sent.queue
            /\ node' = Returned(IF sent.ok THEN Ok("find_peer", "unit")
                                ELSE Err("find_peer", "Failed to send find peer command"))
    /\ ApiUnchanged

\* The peer_id getter
peer_id ==
    /\ node.pc = "running"
    /\ node.traced
    /\ node' = Returned(Ok("peer_id", to_string(LocalPeerId)))
    /\ UNCHANGED cmd_queue
    /\ ApiUnchanged

\* The JavaScript object next_event builds for an event.
JsType(t) ==
    CASE t = "Connected" -> "connected"
      [] t = "Disconnected" -> "disconnected"
      [] t = "MessageReceived" -> "messageReceived"
      [] t = "MessagePublished" -> "messagePublished"
      [] t = "PeerDiscovery" -> "peerDiscovery"
      [] t = "Error" -> "error"

ToJs(event) == [event EXCEPT !.type = JsType(event.type)]

\* A next_event that keeps its own record of who is connected.
next_eventRecording ==
    /\ node.pc = "running"
    /\ node.traced
    /\ node.events # <<>>
    /\ node' = [node EXCEPT !.events = Tail(@),
                            !.ret = Ok("next_event", ToJs(Head(node.events)))]
    /\ shared_state' =
          IF Head(node.events).type = "Connected"
          THEN [shared_state EXCEPT
                  !.connected_peers = Insert(@, Head(node.events).peer_id, <<>>)]
          ELSE shared_state
    /\ UNCHANGED <<cmd_queue, swarm_ready, routing, conns, queries, steps,
                   last_op, emitted, last_conn, ever_connected, nb, boot, ident>>

\* next_event: the next event of the channel as an object; with the channel
\* empty it waits while the loop holds the sender, and fails once it is gone
next_event ==
    /\ node.pc = "running"
    /\ node.traced
    /\ node.events # <<>> \/ ~node.alive
    /\ node' =
          IF node.events # <<>>
          THEN [node EXCEPT !.events = Tail(@),
                            !.ret = Ok("next_event", ToJs(Head(node.events)))]
          ELSE [node EXCEPT !.ret = Err("next_event", "No events available")]
    /\ UNCHANGED cmd_queue
    /\ ApiUnchanged

\* next_event step by step, for calls that overlap. The call is made:
\* `self.event_receiver.lock().await` is reached.
next_eventCall(c) ==
    /\ node.pc = "running" /\ node.consumer.logged
    /\ node.consumer.callers[c] = "idle"
    /\ node' = [node EXCEPT !.consumer.callers[c] = "locking"]
    /\ UNCHANGED cmd_queue
    /\ ApiUnchanged

\* The futures Mutex is granted to one of the calls waiting for it, and is
\* held across `receiver.next().await`.
next_eventLock(c) ==
    /\ node.pc = "running" /\ node.consumer.logged
    /\ node.consumer.callers[c] = "locking"
    /\ node.consumer.lock = "free"
    /\ node' = [node EXCEPT !.consumer.callers[c] = "receiving",
                            !.consumer.lock = c]
    /\ UNCHANGED cmd_queue
    /\ ApiUnchanged

\* A receive that hands out the newest event of the channel.
next_eventReceiveNewest(c) ==
    /\ node.pc = "running" /\ node.consumer.logged
    /\ node.consumer.callers[c] = "receiving"
    /\ node.events # <<>> \/ ~node.alive
    /\ node' =
          IF node.events # <<>>
          THEN [node EXCEPT
                  !.events = SubSeq(@, 1, Len(@) - 1),
                  !.ret = Ok("next_event", ToJs(node.events[Len(node.events)])),
                  !.consumer.got =
                      Append(@, [caller |-> c,
                                 value |-> ToJs(node.events[Len(node.events)])]),
                  !.consumer.callers[c] = "idle",
                  !.consumer.lock = "free"]
          ELSE [node EXCEPT
                  !.ret = Err("next_event", "No events available"),
                  !.consumer.callers[c] = "idle",
                  !.consumer.lock = "free"]
    /\ UNCHANGED cmd_queue
    /\ ApiUnchanged

\* `receiver.next().await` resolves for the call that holds the lock: the
\* oldest event of the channel becomes the call's object and the guard is
\* dropped; with the sender gone and nothing queued the call fails.
next_eventReceive(c) ==
    /\ node.pc = "running" /\ node.consumer.logged
    /\ node.consumer.callers[c] = "receiving"
    /\ node.events # <<>> \/ ~node.alive
    /\ node' =
          IF node.events # <<>>
          THEN [node EXCEPT
                  !.events = Tail(@),
                  !.ret = Ok("next_event", ToJs(Head(node.events))),
                  !.consumer.got =
                      Append(@, [caller |-> c, value |-> ToJs(Head(node.events))]),
                  !.consumer.callers[c] = "idle",
                  !.consumer.lock = "free"]
          ELSE [node EXCEPT
                  !.ret = Err("next_event", "No events available"),
                  !.consumer.callers[c] = "idle",
                  !.consumer.lock = "free"]
    /\ UNCHANGED cmd_queue
    /\ ApiUnchanged

----------------------------------------------------------------------------
(* The event loop: futures::select! over cmd_receiver and swarm *)

HasBudget == steps = NoBudget \/ steps < MaxSteps

Tick ==
    /\ steps' = IF steps = NoBudget THEN NoBudget ELSE steps + 1
    /\ UNCHANGED <<nb, boot, ident>>

\* A select that looks at the command queue only when the swarm has nothing.
CmdReadyBiased == cmd_queue # <<>> /\ ~swarm_ready

\* cmd_receiver.select_next_some() is ready
CmdReady == cmd_queue # <<>>

\* swarm.select_next_some() is ready
SwarmReady == swarm_ready

\* A Publish arm that drops a failed publish without an event.
HandlePublishSilent(res) ==
    /\ cmd_queue # <<>> /\ HasBudget
    /\ Head(cmd_queue).type = "Publish"
    /\ cmd_queue' = Tail(cmd_queue)
    /\ emitted' = IF res.ok THEN <<MessagePublished(res.msg_id)>> ELSE <<>>
    /\ last_op' = [kind |-> "Publish", ok |-> res.ok]
    /\ Tick
    /\ UNCHANGED <<swarm_ready, shared_state, routing, conns, queries,
                   last_conn, ever_connected>>

\* Command::Publish arm
HandlePublish(res) ==
    /\ CmdReady /\ HasBudget
    /\ Head(cmd_queue).type = "Publish"
    /\ cmd_queue' = Tail(cmd_queue)
    /\ emitted' = IF res.ok
                  THEN <<MessagePublished(res.msg_id)>>
                  ELSE <<ErrorEvent("Publish error: " \o res.err)>>
    /\ last_op' = [kind |-> "Publish", ok |-> res.ok]
    /\ Tick
    /\ UNCHANGED <<swarm_ready, shared_state, routing, conns, queries,
                   last_conn, ever_connected>>

\* A FindPeer arm that announces the peer it was asked for straight away.
HandleFindPeerEager ==
    /\ cmd_queue # <<>> /\ HasBudget
    /\ Head(cmd_queue).type = "FindPeer"
    /\ cmd_queue' = Tail(cmd_queue)
    /\ queries' = Append(queries, Head(cmd_queue).pid)
    /\ emitted' = <<PeerDiscovery(Head(cmd_queue).pid, <<>>)>>
    /\ last_op' = [kind |-> "FindPeer", pid |-> Head(cmd_queue).pid]
    /\ Tick
    /\ UNCHANGED <<swarm_ready, shared_state, routing, conns,
                   last_conn, ever_connected>>

\* A FindPeer arm that takes the command and starts no query.
HandleFindPeerDropped ==
    /\ cmd_queue # <<>> /\ HasBudget
    /\ Head(cmd_queue).type = "FindPeer"
    /\ cmd_queue' = Tail(cmd_queue)
    /\ emitted' = <<>>
    /\ last_op' = [kind |-> "FindPeer", pid |-> Head(cmd_queue).pid]
    /\ Tick
    /\ UNCHANGED <<swarm_ready, shared_state, routing, conns, queries,
                   last_conn, ever_connected>>

\* Command::FindPeer arm
HandleFindPeer ==
    /\ CmdReady /\ HasBudget
    /\ Head(cmd_queue).type = "FindPeer"
    /\ cmd_queue' = Tail(cmd_queue)
    /\ queries' = Append(queries, Head(cmd_queue).pid)
    /\ emitted' = <<>>
    /\ last_op' = [kind |-> "FindPeer", pid |-> Head(cmd_queue).pid]
    /\ Tick
    /\ UNCHANGED <<swarm_ready, shared_state, routing, conns,
                   last_conn, ever_connected>>

\* The spawned task exists.
LoopRuns == node.alive

\* A loop that ends when a send to the consumer fails.
DeliverOrStop ==
    node' = IF node.traced /\ node.pc = "running"
            THEN [node EXCEPT !.events = @ \o emitted']
            ELSE IF node.traced /\ emitted' # <<>>
            THEN [node EXCEPT !.alive = FALSE]
            ELSE node

\* `let _ = event_sender.unbounded_send(..)` for every event of the iteration:
\* with the receiver gone the send fails and the failure is ignored
Deliver ==
    node' = IF node.traced /\ node.pc = "running"
            THEN [node EXCEPT
                    !.events = @ \o emitted',
                    !.consumer.sent = IF node.consumer.logged THEN @ \o emitted' ELSE @]
            ELSE node

CmdArms == (\E res \in PublishResults : HandlePublish(res)) \/ HandleFindPeer

CmdBranch == LoopRuns /\ CmdArms /\ Deliver

\* What every swarm arm does: one event is taken from the stream, which may or
\* may not have another one ready.
TakeSwarmEvent ==
    /\ SwarmReady /\ HasBudget
    /\ swarm_ready' \in BOOLEAN
    /\ Tick
    /\ UNCHANGED cmd_queue

\* A Message arm that decodes strictly and reports what it cannot decode.
OnGossipMessageStrict(p, bytes) ==
    /\ TakeSwarmEvent
    /\ conns[p] > 0
    /\ emitted' = IF Contains(bytes, BadByte)
                  THEN <<ErrorEvent("invalid utf-8")>>
                  ELSE <<MessageReceived(p, bytes)>>
    /\ last_op' = [kind |-> "Message", peer |-> p, bytes |-> bytes]
    /\ UNCHANGED <<shared_state, routing, conns, queries, last_conn, ever_connected>>

\* GossipsubEvent::Message arm
OnGossipMessage(p, bytes) ==
    /\ TakeSwarmEvent
    /\ conns[p] > 0
    /\ emitted' = <<MessageReceived(p, FromUtf8Lossy(bytes))>>
    /\ last_op' = [kind |-> "Message", peer |-> p, bytes |-> bytes]
    /\ UNCHANGED <<shared_state, routing, conns, queries, last_conn, ever_connected>>

\* An identify arm that announces the peer it heard from.
OnIdentifyReceivedAnnounce(p, listen_addrs) ==
    /\ TakeSwarmEvent
    /\ conns[p] > 0
    /\ routing' = AddAddresses(routing, p, listen_addrs)
    /\ emitted' = <<PeerDiscovery(p, AddrStrings(listen_addrs))>>
    /\ last_op' = [kind |-> "Identify", peer |-> p, addrs |-> listen_addrs]
    /\ UNCHANGED <<shared_state, conns, queries, last_conn, ever_connected>>

\* identify::Event::Received arm
OnIdentifyReceived(p, listen_addrs) ==
    /\ TakeSwarmEvent
    /\ conns[p] > 0
    /\ routing' = AddAddresses(routing, p, listen_addrs)
    /\ emitted' = <<>>
    /\ last_op' = [kind |-> "Identify", peer |-> p, addrs |-> listen_addrs]
    /\ UNCHANGED <<shared_state, conns, queries, last_conn, ever_connected>>

RECURSIVE InsertDiscovered(_, _)
InsertDiscovered(m, peers) ==
    IF peers = <<>> THEN m
    ELSE InsertDiscovered(
            Insert(m, to_string(Head(peers).peer_id), AddrStrings(Head(peers).addrs)),
            Tail(peers))

HasAddrs(info) == info.addrs # <<>>

\* Events only for the peers that came with an address.
DiscoveryEventsWithAddrs(peers) ==
    [i \in 1..Len(SelectSeq(peers, HasAddrs)) |->
        PeerDiscovery(SelectSeq(peers, HasAddrs)[i].peer_id,
                      AddrStrings(SelectSeq(peers, HasAddrs)[i].addrs))]

DiscoveryEvents(peers) ==
    [i \in 1..Len(peers) |->
        PeerDiscovery(peers[i].peer_id, AddrStrings(peers[i].addrs))]

\* QueryResult::GetClosestPeers(Ok(ok)) arm
OnGetClosestPeersOk(i, peers) ==
    /\ TakeSwarmEvent
    /\ i \in 1..Len(queries)
    /\ ResultPossible(peers)
    /\ queries' = RemoveAt(queries, i)
    /\ emitted' = DiscoveryEvents(peers)
    /\ shared_state' =
          [shared_state EXCEPT
              !.discovered_peers = InsertDiscovered(@, peers)]
    /\ last_op' = [kind |-> "QueryOk", peers |-> peers]
    /\ UNCHANGED <<routing, conns, last_conn, ever_connected>>

\* A failed-query arm that asks the routing table again for the same target.
OnGetClosestPeersErrRetry(i) ==
    /\ TakeSwarmEvent
    /\ i \in 1..Len(queries)
    /\ queries' = Append(RemoveAt(queries, i), queries[i])
    /\ emitted' = <<>>
    /\ last_op' = [kind |-> "QueryErr"]
    /\ UNCHANGED <<shared_state, routing, conns, last_conn, ever_connected>>

\* QueryResult::GetClosestPeers(Err(err)) arm
OnGetClosestPeersErr(i) ==
    /\ TakeSwarmEvent
    /\ i \in 1..Len(queries)
    /\ queries' = RemoveAt(queries, i)
    /\ emitted' = <<>>
    /\ last_op' = [kind |-> "QueryErr"]
    /\ UNCHANGED <<shared_state, routing, conns, last_conn, ever_connected>>

\* A ConnectionEstablished arm that sends the event and leaves the state
\* update to a later turn of the task.
OnConnectionEstablishedEmitFirst(p, endpoint) ==
    /\ TakeSwarmEvent
    /\ conns[p] < MaxConns
    /\ conns' = [conns EXCEPT ![p] = @ + 1]
    /\ ever_connected' = ever_connected \cup {p}
    /\ emitted' = <<Connected(p)>>
    /\ last_conn' = [last_conn EXCEPT ![p] = "Connected"]
    /\ last_op' = [kind |-> "ConnectionEstablished", peer |-> p, endpoint |-> endpoint]
    /\ UNCHANGED <<shared_state, routing, queries>>

\* SwarmEvent::ConnectionEstablished arm
OnConnectionEstablished(p, endpoint) ==
    /\ TakeSwarmEvent
    /\ conns[p] < MaxConns
    /\ conns' = [conns EXCEPT ![p] = @ + 1]
    /\ ever_connected' = ever_connected \cup {p}
    /\ emitted' = <<Connected(p)>>
    /\ last_conn' = [last_conn EXCEPT ![p] = "Connected"]
    /\ shared_state' =
          [shared_state EXCEPT
              !.connected_peers = Insert(@, to_string(p), <<to_string(endpoint)>>)]
    /\ last_op' = [kind |-> "ConnectionEstablished", peer |-> p, endpoint |-> endpoint]
    /\ UNCHANGED <<routing, queries>>

\* A ConnectionClosed arm that forgets the peer only with its last connection.
OnConnectionClosedLast(p) ==
    /\ TakeSwarmEvent
    /\ conns[p] > 0
    /\ conns' = [conns EXCEPT ![p] = @ - 1]
    /\ emitted' = <<Disconnected(p)>>
    /\ last_conn' = [last_conn EXCEPT ![p] = "Disconnected"]
    /\ shared_state' =
          [shared_state EXCEPT
              !.connected_peers = IF conns[p] = 1 THEN Remove(@, to_string(p)) ELSE @]
    /\ last_op' = [kind |-> "ConnectionClosed", peer |-> p]
    /\ UNCHANGED <<routing, queries, ever_connected>>

\* A ConnectionClosed arm that also forgets what was discovered about the peer.
OnConnectionClosedPrune(p) ==
    /\ TakeSwarmEvent
    /\ conns[p] > 0
    /\ conns' = [conns EXCEPT ![p] = @ - 1]
    /\ emitted' = <<Disconnected(p)>>
    /\ last_conn' = [last_conn EXCEPT ![p] = "Disconnected"]
    /\ shared_state' =
          [shared_state EXCEPT
              !.connected_peers = Remove(@, to_string(p)),
              !.discovered_peers = Remove(@, to_string(p))]
    /\ last_op' = [kind |-> "ConnectionClosed", peer |-> p]
    /\ UNCHANGED <<routing, queries, ever_connected>>

\* SwarmEvent::ConnectionClosed arm
OnConnectionClosed(p) ==
    /\ TakeSwarmEvent
    /\ conns[p] > 0
    /\ conns' = [conns EXCEPT ![p] = @ - 1]
    /\ emitted' = <<Disconnected(p)>>
    /\ last_conn' = [last_conn EXCEPT ![p] = "Disconnected"]
    /\ shared_state' =
          [shared_state EXCEPT !.connected_peers = Remove(@, to_string(p))]
    /\ last_op' = [kind |-> "ConnectionClosed", peer |-> p]
    /\ UNCHANGED <<routing, queries, ever_connected>>

\* A NewListenAddr arm that records every report.
OnNewListenAddrAppend(a) ==
    /\ TakeSwarmEvent
    /\ shared_state' =
          [shared_state EXCEPT !.listen_addrs = Append(@, to_string(a))]
    /\ emitted' = <<>>
    /\ last_op' = [kind |-> "NewListenAddr", addr |-> a]
    /\ UNCHANGED <<routing, conns, queries, last_conn, ever_connected>>

\* SwarmEvent::NewListenAddr arm
OnNewListenAddr(a) ==
    /\ TakeSwarmEvent
    /\ shared_state' =
          [shared_state EXCEPT
              !.listen_addrs =
                  IF Contains(@, to_string(a)) THEN @ ELSE Append(@, to_string(a))]
    /\ emitted' = <<>>
    /\ last_op' = [kind |-> "NewListenAddr", addr |-> a]
    /\ UNCHANGED <<routing, conns, queries, last_conn, ever_connected>>

\* An OutgoingConnectionError arm that takes the failure for a lost connection.
OnOutgoingConnectionErrorForget ==
    /\ TakeSwarmEvent
    /\ emitted' = <<ErrorEvent("Connection error: " \o "dial")>>
    /\ shared_state' = [shared_state EXCEPT !.connected_peers = EmptyMap]
    /\ last_op' = [kind |-> "OutgoingConnectionError"]
    /\ UNCHANGED <<routing, conns, queries, last_conn, ever_connected>>

\* An OutgoingConnectionError arm that only logs, as the failed-query arm does.
OnOutgoingConnectionErrorSilent ==
    /\ TakeSwarmEvent
    /\ emitted' = <<>>
    /\ last_op' = [kind |-> "OutgoingConnectionError"]
    /\ UNCHANGED <<shared_state, routing, conns, queries, last_conn, ever_connected>>

\* SwarmEvent::OutgoingConnectionError arm
OnOutgoingConnectionError ==
    /\ TakeSwarmEvent
    /\ emitted' = <<ErrorEvent("Connection error: " \o "dial")>>
    /\ last_op' = [kind |-> "OutgoingConnectionError"]
    /\ UNCHANGED <<shared_state, routing, conns, queries, last_conn, ever_connected>>

\* A loop that keeps subscriptions in step with what peers report.
OnSubscriptionChangeTracked(subscribed) ==
    /\ TakeSwarmEvent
    /\ shared_state' =
          [shared_state EXCEPT
              !.subscriptions = IF subscribed THEN Append(@, DocstoreTopic) ELSE <<>>]
    /\ emitted' = <<>>
    /\ last_op' = [kind |-> "Subscription", subscribed |-> subscribed]
    /\ UNCHANGED <<routing, conns, queries, last_conn, ever_connected>>

\* GossipsubEvent::Subscribed and ::Unsubscribed for a peer: no arm names
\* them, they fall to the `_ => {}` of the behaviour match
OnSubscriptionChange(subscribed) ==
    /\ TakeSwarmEvent
    /\ emitted' = <<>>
    /\ last_op' = [kind |-> "Subscription", subscribed |-> subscribed]
    /\ UNCHANGED <<shared_state, routing, conns, queries, last_conn, ever_connected>>

\* SwarmEvent::Dialing, the other behaviour events (ping, other Kademlia
\* events) and the `_ => {}` arms
OnOtherEvent ==
    /\ TakeSwarmEvent
    /\ emitted' = <<>>
    /\ last_op' = [kind |-> "Other"]
    /\ UNCHANGED <<shared_state, routing, conns, queries, last_conn, ever_connected>>

\* The network makes the swarm stream ready.
NetActivity ==
    /\ ~swarm_ready
    /\ swarm_ready' = TRUE
    /\ UNCHANGED <<cmd_queue, shared_state, routing, conns, queries, steps,
                   last_op, emitted, last_conn, ever_connected, nb, boot, ident, node>>

SwarmArms ==
    \/ \E p \in Peers, bytes \in Payloads : OnGossipMessage(p, bytes)
    \/ \E p \in Peers, as \in AddrLists : OnIdentifyReceived(p, as)
    \/ \E i \in 1..MaxQueries, r \in QueryResults : OnGetClosestPeersOk(i, r)
    \/ \E i \in 1..MaxQueries : OnGetClosestPeersErr(i)
    \/ \E p \in Peers, e \in Addrs : OnConnectionEstablished(p, e)
    \/ \E p \in Peers : OnConnectionClosed(p)
    \/ \E a \in Addrs : OnNewListenAddr(a)
    \/ OnOutgoingConnectionError
    \/ \E subscribed \in BOOLEAN : OnSubscriptionChange(subscribed)
    \/ OnOtherEvent

SwarmBranch == LoopRuns /\ SwarmArms /\ Deliver

ApiCall ==
    \/ \E data \in Strings : publish_update(data)
    \/ \E s \in PeerIdStrings : find_peer(s)

\* The loop as WasmNode::new leaves it: topic subscribed, the server dialled,
\* both channels empty.
LoopInit(budget) ==
    /\ cmd_queue = <<>>
    /\ swarm_ready = FALSE
    /\ shared_state = InitialSharedState
    /\ routing = NoEntries
    /\ conns = [p \in Peers |-> 0]
    /\ queries = <<>>
    /\ steps = budget
    /\ last_op = [kind |-> "None"]
    /\ emitted = <<>>
    /\ last_conn = [p \in Peers |-> "None"]
    /\ ever_connected = {}

\* The parts a specification leaves out stay as they are.
Init ==
    /\ LoopInit(0) /\ nb = NbIdle /\ boot = BootIdle /\ ident = IdentIdle
    /\ node = NodeDetached

Next == ApiCall \/ NetActivity \/ CmdBranch \/ SwarmBranch

Spec == Init /\ [][Next]_vars

\* The loop with no iteration budget, for liveness: the swarm arms that keep
\* the state small stand for continuous protocol traffic.
SwarmArmsFair ==
    \/ \E i \in 1..MaxQueries : OnGetClosestPeersErr(i)
    \/ OnOutgoingConnectionError
    \/ OnOtherEvent

SwarmBranchFair == LoopRuns /\ SwarmArmsFair /\ Deliver

InitFair ==
    /\ LoopInit(NoBudget) /\ nb = NbIdle /\ boot = BootIdle /\ ident = IdentIdle
    /\ node = NodeDetached

NextFair == ApiCall \/ NetActivity \/ CmdBranch \/ SwarmBranchFair

\* futures::select! polls its branches in a pseudo-random order on every
\* iteration, so a branch that stays ready is taken.
SpecFair ==
    InitFair /\ [][NextFair]_vars /\ WF_vars(CmdBranch) /\ WF_vars(SwarmBranchFair)

\* A builder for any role, in either build of the crate.
InitCompose ==
    /\ LoopInit(0) /\ boot = BootIdle /\ ident = IdentIdle /\ node = NodeDetached
    /\ \E role \in Roles, t \in Targets :
          nb = [builder |-> NodeBuilderNew(role), target |-> t, modules |-> NoModules]

SpecCompose == InitCompose /\ [][ComposeNext]_vars

\* The server as it reaches the bootstrap block, for any BOOTSTRAP_PEERS.
InitBoot ==
    /\ LoopInit(0) /\ nb = NbIdle /\ ident = IdentIdle /\ node = NodeDetached
    /\ \E env \in BootEnvs : boot = BootStart(env)

SpecBoot == InitBoot /\ [][BootNext]_vars

\* Before the first run, with anything at the key path.
InitIdentity ==
    /\ LoopInit(0) /\ nb = NbIdle /\ boot = BootIdle /\ node = NodeDetached
    /\ \E f \in OutsideFiles : ident = IdentStart(f)

SpecIdentity == InitIdentity /\ [][IdentNext]_vars

\* The executor drops the spawned task: the command receiver and the event
\* sender go with it.
LoopGone ==
    /\ node.pc = "running" /\ node.traced /\ node.alive
    /\ node' = [node EXCEPT !.alive = FALSE]
    /\ cmd_queue' = <<>>
    /\ ApiUnchanged

\* The WasmNode is dropped: the only command sender and the event receiver go
\* with it. Commands already sent stay in the channel until the loop has taken
\* them; the events not yet read are lost.
DropHandle ==
    /\ node.pc = "running" /\ node.traced /\ node.alive
    /\ node' = [node EXCEPT !.pc = "dropped", !.events = <<>>, !.dropped_at = steps]
    /\ UNCHANGED cmd_queue
    /\ ApiUnchanged

HandleCall ==
    \/ \E data \in Strings : publish_update(data)
    \/ \E s \in PeerIdStrings : find_peer(s)
    \/ peer_id
    \/ next_event

\* A node from its construction on, with its handle's returns and its event
\* channel followed, over the first two iterations of its loop.
InitNode ==
    /\ LoopInit(MaxSteps - 2) /\ nb = NbIdle /\ boot = BootIdle /\ ident = IdentIdle
    /\ \E arg \in ServerAddrs : node = NodeNew(arg)

NextNode ==
    \/ \E dial_ok \in BOOLEAN : WasmNodeNew(dial_ok)
    \/ HandleCall
    \/ NetActivity
    \/ CmdBranch
    \/ SwarmBranch
    \/ LoopGone
    \/ DropHandle

SpecNode == InitNode /\ [][NextNode]_vars

\* A node whose consumer is followed call by call, with calls that overlap,
\* over the first three iterations of its loop.
InitConsumer ==
    /\ LoopInit(MaxSteps - 3) /\ nb = NbIdle /\ boot = BootIdle /\ ident = IdentIdle
    /\ node = [NodeNew(AddrListen) EXCEPT !.consumer.logged = TRUE]

NextConsumer ==
    \/ \E dial_ok \in BOOLEAN : WasmNodeNew(dial_ok)
    \/ \E c \in Callers : next_eventCall(c)
    \/ \E c \in Callers : next_eventLock(c)
    \/ \E c \in Callers : next_eventReceive(c)
    \/ NetActivity
    \/ SwarmBranch

SpecConsumer == InitConsumer /\ [][NextConsumer]_vars

\* The same node with one consumer that calls next_event again and again and
\* a caller of find_peer, so that query results are among the events.
OneCaller == CHOOSE c \in Callers : TRUE

NextObserver ==
    \/ \E dial_ok \in BOOLEAN : WasmNodeNew(dial_ok)
    \/ next_eventCall(OneCaller)
    \/ next_eventLock(OneCaller)
    \/ next_eventReceive(OneCaller)
    \/ \E s \in PeerIdStrings : find_peer(s)
    \/ NetActivity
    \/ CmdBranch
    \/ SwarmBranch

SpecObserver == InitConsumer /\ [][NextObserver]_vars

----------------------------------------------------------------------------
(* Properties of the event loop *)

EmittedTypes == {emitted[i].type : i \in 1..Len(emitted)}

\* C2: a dequeued Publish command produces exactly one domain event,
\* MessagePublished when gossip publish succeeded and Error when it failed,
\* and the loop can go on with whatever is ready next.
C2_PublishOneEvent ==
    last_op.kind = "Publish" =>
        /\ Len(emitted) = 1
        /\ last_op.ok => emitted[1].type = "MessagePublished"
        /\ ~last_op.ok => emitted[1].type = "Error"
        /\ (HasBudget /\ cmd_queue # <<>>) => ENABLED CmdBranch
        /\ (HasBudget /\ swarm_ready) => ENABLED SwarmBranch

\* A publish failed while no peer was connected, and produced an Error event.
C2_Witness ==
    /\ last_op.kind = "Publish"
    /\ ~last_op.ok
    /\ \A p \in Peers : conns[p] = 0
    /\ emitted = <<ErrorEvent("Publish error: InsufficientPeers")>>

ConnectedKeys == DOMAIN shared_state.connected_peers
DiscoveredKeys == DOMAIN shared_state.discovered_peers

\* C7: a connection-established event records the peer with its endpoint and
\* emits one Connected; a connection-closed event removes the peer and emits
\* one Disconnected; so a peer is a key of connected_peers exactly when the
\* last connection event emitted for it is Connected.
C7_ConnectedPeers ==
    /\ last_op.kind = "ConnectionEstablished" =>
          /\ emitted = <<Connected(last_op.peer)>>
          /\ to_string(last_op.peer) \in ConnectedKeys
          /\ shared_state.connected_peers[to_string(last_op.peer)]
                = <<to_string(last_op.endpoint)>>
    /\ last_op.kind = "ConnectionClosed" =>
          /\ emitted = <<Disconnected(last_op.peer)>>
          /\ to_string(last_op.peer) \notin ConnectedKeys
    /\ \A p \in Peers :
          to_string(p) \in ConnectedKeys <=> last_conn[p] = "Connected"

\* One of two open connections to a peer was closed.
C7_Witness ==
    /\ last_op.kind = "ConnectionClosed"
    /\ conns[last_op.peer] > 0
    /\ last_conn[last_op.peer] = "Disconnected"

\* C8 (as claimed): after identify information from a peer, every address it
\* reported is in the routing table and in discovered_peers under that peer.
C8_IdentifyRecorded ==
    last_op.kind = "Identify" =>
        \A i \in 1..Len(last_op.addrs) :
            /\ RoutingHas(routing, last_op.peer, last_op.addrs[i])
            /\ to_string(last_op.peer) \in DiscoveredKeys
            /\ Contains(shared_state.discovered_peers[to_string(last_op.peer)],
                        to_string(last_op.addrs[i]))

DiscoveriesOf(p) ==
    {i \in 1..Len(emitted) :
        emitted[i].type = "PeerDiscovery" /\ emitted[i].peer_id = to_string(p)}

\* C9: a successful closest-peers result R emits one PeerDiscovery per peer of
\* R, with the addresses R reports for it, none for any other peer, and leaves
\* discovered_peers mapping each peer of R to those addresses.
C9_QueryResult ==
    last_op.kind = "QueryOk" =>
        LET R == last_op.peers IN
        /\ EmittedTypes \subseteq {"PeerDiscovery"}
        /\ \A p \in Peers :
              Cardinality(DiscoveriesOf(p)) = IF p \in ResultPeers(R) THEN 1 ELSE 0
        /\ \A i \in 1..Len(R) :
              /\ \A j \in DiscoveriesOf(R[i].peer_id) :
                    emitted[j].addrs = AddrStrings(R[i].addrs)
              /\ to_string(R[i].peer_id) \in DiscoveredKeys
              /\ shared_state.discovered_peers[to_string(R[i].peer_id)]
                    = AddrStrings(R[i].addrs)

\* A result with two peers, one of them without addresses, was processed.
C9_Witness ==
    /\ last_op.kind = "QueryOk"
    /\ Len(last_op.peers) = 2
    /\ \E i \in 1..2 : last_op.peers[i].addrs = <<>>
    /\ Len(emitted) = 2

\* C10: a PeerDiscovery event is emitted only by the iteration that handles a
\* completed closest-peers query, and only once a connection was established;
\* handling FindPeer itself emits nothing.
C10_DiscoveryOnlyFromQuery ==
    /\ "PeerDiscovery" \in EmittedTypes =>
          /\ last_op.kind = "QueryOk"
          /\ ever_connected # {}
    /\ last_op.kind = "FindPeer" => emitted = <<>>

\* FindPeer was handled before any connection existed: the query is in
\* progress and nothing was emitted.
C10_Witness ==
    /\ last_op.kind = "FindPeer"
    /\ ever_connected = {}
    /\ queries = <<last_op.pid>>
    /\ emitted = <<>>

Queued(cmd) == \E i \in 1..Len(cmd_queue) : cmd_queue[i] = cmd

\* C11: a FindPeer(X) that is in the command queue is eventually dequeued and
\* a closest-peers query for X is issued by that iteration (the loop has no
\* other way to dispose of the command).
C11_FindPeerNotLost ==
    \A p \in Peers :
        Queued(FindPeer(p)) ~>
            (last_op.kind = "FindPeer" /\ last_op.pid = p /\ Contains(queries, p))

\* A query was issued for a FindPeer while protocol events were waiting and
\* another command was behind it.
C11_Witness ==
    /\ last_op.kind = "FindPeer"
    /\ Contains(queries, last_op.pid)
    /\ swarm_ready
    /\ cmd_queue # <<>>
    /\ steps = NoBudget

IsPrefix(s, t) == Len(s) <= Len(t) /\ SubSeq(t, 1, Len(s)) = s

\* C14: listen_addrs never holds an address twice, holds an address from the
\* iteration that handles its report on, and only ever grows at its end, so
\* the addresses stay in the order of their first report.
C14_ListenAddrsSet ==
    /\ [](/\ NoDup(shared_state.listen_addrs)
          /\ last_op.kind = "NewListenAddr" =>
                Contains(shared_state.listen_addrs, to_string(last_op.addr)))
    /\ [][/\ IsPrefix(shared_state.listen_addrs, shared_state.listen_addrs')
          /\ Len(shared_state.listen_addrs') <= Len(shared_state.listen_addrs) + 1]_vars

\* An address was reported again after a second one had been reported.
C14_Witness ==
    /\ steps = 3
    /\ last_op.kind = "NewListenAddr"
    /\ Len(shared_state.listen_addrs) = 2
    /\ shared_state.listen_addrs[1] = to_string(last_op.addr)

\* The iteration just done handled a failed publish, a failed dial or a failed
\* closest-peers query.
ErrorHandled(op) ==
    \/ op.kind \in {"OutgoingConnectionError", "QueryErr"}
    \/ op.kind = "Publish" /\ ~op.ok

\* C16: an iteration that handles a failed publish, an outgoing connection
\* error or a failed closest-peers query leaves all five fields of
\* SharedState as they were.
C16_ErrorsKeepState ==
    [][(steps' # steps /\ ErrorHandled(last_op')) => shared_state' = shared_state]_vars

\* A closest-peers query failed on a node with a connected peer and a listen
\* address.
C16_Witness ==
    /\ last_op.kind = "QueryErr"
    /\ ConnectedKeys # {}
    /\ shared_state.listen_addrs # <<>>

\* A call of the handle that gets to unbounded_send.
SendStep ==
    \/ \E data \in Strings : publish_update(data)
    \/ \E s \in PeerIdStrings : ParsePeerId(s).ok /\ find_peer(s)

SendErrors == {"Failed to send command", "Failed to send find peer command"}

\* C12: a send through publish_update or find_peer can always be made, returns
\* Ok and queues the command while the loop exists, and once the loop is gone
\* returns a send error to the caller and queues nothing; either way it
\* touches nothing the loop owns.
C12_SendNeverBlocks ==
    /\ [][SendStep =>
            /\ node'.ret.ok <=> node.alive
            /\ node.alive => Len(cmd_queue') = Len(cmd_queue) + 1
            /\ ~node.alive =>
                  /\ cmd_queue' = cmd_queue
                  /\ node'.ret.err \in SendErrors
            /\ node'.events = node.events
            /\ UNCHANGED <<shared_state, routing, queries, steps, emitted>>]_vars
    /\ []((node.pc = "running" /\ Len(cmd_queue) < MaxQueue) =>
            /\ \A data \in Strings : ENABLED publish_update(data)
            /\ FindPeerCount(cmd_queue) + Len(queries) < MaxQueries =>
                  \A s \in PeerIdStrings : ENABLED find_peer(s))

\* find_peer failed to send after the loop was gone, and nothing was queued.
C12_Witness ==
    /\ ~node.alive
    /\ node.ret = Err("find_peer", "Failed to send find peer command")
    /\ cmd_queue = <<>>
    /\ steps = MaxSteps - 2

\* C15: shared_state and the routing table change only in a step that is one
\* iteration of the loop, and no call of publish_update, find_peer,
\* next_event or peer_id changes them.
C15_SingleWriter ==
    [][/\ (shared_state' # shared_state \/ routing' # routing) =>
             /\ LoopRuns
             /\ steps' = steps + 1
             /\ CmdBranch \/ SwarmBranch
       /\ HandleCall => UNCHANGED <<shared_state, routing>>]_vars

\* next_event handed a Connected event to the consumer while the peer was in
\* connected_peers with its endpoint.
C15_Witness ==
    /\ node.ret.call = "next_event"
    /\ node.ret.ok
    /\ node.ret.value.type = "connected"
    /\ node.ret.value.peer_id \in ConnectedKeys
    /\ shared_state.connected_peers[node.ret.value.peer_id] # <<>>

\* C19 (as claimed): a dial that fails at startup does not keep the node from
\* starting: the loop is spawned all the same.
C19_DialFireAndForget ==
    node.dial = "failed" => (node.pc = "running" /\ node.alive)

----------------------------------------------------------------------------
(* Properties of the composer, the bootstrap block and the identity store *)

RelayPresent(m) == "relay" \in DOMAIN m /\ m.relay.some

\* C1 (as claimed): Client gets a client-mode routing table and no relay;
\* Relay and FullNode get a server-mode routing table and a relay module.
C1_RoleModules ==
    nb.modules.built =>
        /\ nb.builder.role = "Client" =>
              nb.modules.kademlia.mode = "Client" /\ ~RelayPresent(nb.modules)
        /\ nb.builder.role \in {"Relay", "FullNode"} =>
              nb.modules.kademlia.mode = "Server" /\ RelayPresent(nb.modules)

\* C1 (amended): the routing-table mode is as claimed in both builds and Client
\* never gets a relay; Relay and FullNode get a relay module in the native
\* build, and the wasm32 build returns no relay module for any role.
C1_RoleModulesPerTarget ==
    nb.modules.built =>
        /\ nb.modules.kademlia.mode
              = (IF nb.builder.role = "Client" THEN "Client" ELSE "Server")
        /\ RelayPresent(nb.modules)
              <=> (nb.builder.role \in {"Relay", "FullNode"} /\ nb.target = "native")

\* A Relay builder compiled for wasm32 has built its modules: no relay.
C1_Witness ==
    /\ nb.modules.built
    /\ nb.builder.role = "Relay"
    /\ nb.target = "wasm32"
    /\ nb.modules.kademlia.mode = "Server"
    /\ ~RelayPresent(nb.modules)

SeedText(i) == Trim(boot.env.pieces[i])
SeedParses(i) == SeedText(i) # <<>> /\ ParseMultiaddr(SeedText(i)).ok
EmbeddedPeers(t) == {t[k].arg : k \in {j \in 1..Len(t) : t[j].proto = "p2p"}}
AddsOf(i) == SelectSeq(boot.adds, LAMBDA r : r.seed = i)
DialsOf(i) == SelectSeq(boot.dials, LAMBDA r : r.seed = i)

\* C4: every processed seed that parses and embeds a peer identity caused one
\* routing-table insertion for that peer and no dial; every one that parses
\* and embeds none caused one dial attempt and no insertion; the others
\* caused neither. For "A-with-peer-id, B-without-peer-id" that is one
\* insertion (A) and one dial (B).
C4_SeedsPartitioned ==
    /\ \A i \in 1..Len(boot.env.pieces) :
          i < boot.i =>
            LET t == SeedText(i) IN
            /\ (SeedParses(i) /\ EmbeddedPeers(t) # {}) =>
                  /\ Len(AddsOf(i)) = 1
                  /\ AddsOf(i)[1].peer \in EmbeddedPeers(t)
                  /\ AddsOf(i)[1].addr = t
                  /\ RoutingHas(boot.kad, AddsOf(i)[1].peer, t)
                  /\ DialsOf(i) = <<>>
            /\ (SeedParses(i) /\ EmbeddedPeers(t) = {}) =>
                  /\ Len(DialsOf(i)) = 1
                  /\ DialsOf(i)[1].addr = t
                  /\ AddsOf(i) = <<>>
            /\ ~SeedParses(i) => AddsOf(i) = <<>> /\ DialsOf(i) = <<>>
    /\ (boot.pc = "loop" /\ boot.env.set
          /\ boot.env.pieces = <<AddrWithPeer, <<WS>> \o AddrNoPeer>>) =>
          /\ boot.adds = <<[seed |-> 1, peer |-> "p1", addr |-> AddrWithPeer]>>
          /\ Len(boot.dials) = 1
          /\ boot.dials[1].addr = AddrNoPeer

\* The list "A-with-peer-id, B-without-peer-id" was processed to the end.
C4_Witness ==
    /\ boot.pc = "loop"
    /\ boot.env.pieces = <<AddrWithPeer, <<WS>> \o AddrNoPeer>>
    /\ Len(boot.adds) = 1
    /\ Len(boot.dials) = 1

EntryCorrupt == ident.entry_file.exists /\ ~Decode(ident.entry_file.bytes).ok

\* The call read the file at the path and could not decode it.
FoundCorrupt == EntryCorrupt /\ ident.read_done

WriteErrors == {"create_dir", "create_file", "write_file"}

\* C5 (as claimed): with an undecodable key file at the path,
\* load_or_create_identity does not return an error.
C5_CorruptNeverFails ==
    (ident.pc = "returned" /\ FoundCorrupt) => ident.result.ok

\* C5 (amended): with an undecodable key file at the path,
\* load_or_create_identity fails only if creating the parent directory,
\* creating the file or writing it fails; otherwise it returns a newly
\* generated identity whose encoding has replaced the corrupt content, and
\* main goes on with that identity.
C5_CorruptNotFatal ==
    /\ (ident.pc = "returned" /\ FoundCorrupt) =>
          IF ident.result.ok
          THEN /\ ident.generated
               /\ ident.result.key = ident.kp
               /\ ident.file.exists
               /\ ident.file.bytes = Encode(ident.kp)
               /\ ident.file.bytes # ident.entry_file.bytes
          ELSE ident.result.err \in WriteErrors
    /\ (ident.pc = "running" /\ FoundCorrupt) =>
          ident.generated /\ ident.local_peer_id = PeerIdOf(ident.kp)
    /\ (ident.pc = "fatal" /\ FoundCorrupt) =>
          ident.result.err \in WriteErrors

\* Startup went on with a new identity after a corrupt key file was found.
C5_Witness ==
    /\ ident.pc = "running"
    /\ FoundCorrupt
    /\ ident.entry_file.mode = WorldReadable
    /\ ident.generated
    /\ ident.file.bytes = Encode(ident.kp)

\* C6: after a successful load_or_create_identity the file decodes to the
\* identity returned, and while nobody else modifies the file every later
\* call that returns an identity returns one with the same peer id.
C6_IdentityPersistent ==
    /\ (ident.pc \in {"returned", "running"} /\ ident.result.ok) =>
          /\ ident.file.exists
          /\ Decode(ident.file.bytes).ok
          /\ PeerIdOf(Decode(ident.file.bytes).key) = PeerIdOf(ident.result.key)
          /\ ident.before # NoKey =>
                PeerIdOf(ident.result.key) = PeerIdOf(ident.before)
    /\ ident.stable # NoKey =>
          /\ ident.file.exists
          /\ Decode(ident.file.bytes) = [ok |-> TRUE, key |-> ident.stable]

\* A later run loaded the identity that an earlier run had generated.
C6_Witness ==
    /\ ident.pc = "returned"
    /\ ident.result.ok
    /\ ~ident.generated
    /\ ident.before = KeyName(1)
    /\ ident.result.key = KeyName(1)

AddedPairs == {<<boot.adds[i].peer, boot.adds[i].addr>> : i \in 1..Len(boot.adds)}

C17_OwnerOnlyAfterPersist ==
    (ident.pc \in {"returned", "running"} /\ ident.result.ok /\ ident.generated) =>
        ident.file.mode = OwnerOnly

\* The file at the path was left by a run that was stopped, or failed, between
\* opening it for writing and the end of the write.
FoundCut == ident.entry_cut # NoKey /\ ident.read_done

\* C18: a run that reads a file left incomplete by an interrupted write does
\* not decode it: it generates a keypair, and an identity it returns is that
\* new keypair, not the one whose writing was cut.
C18_CutFileNotLoaded ==
    (ident.pc \in {"generate", "create_dir", "open_write", "write", "returned"}
        /\ FoundCut) =>
        /\ ~Decode(ident.entry_file.bytes).ok
        /\ ident.pc # "generate" => ident.generated
        /\ (ident.pc = "returned" /\ ident.result.ok) =>
              /\ ident.result.key = ident.kp
              /\ ident.result.key # ident.entry_cut
        /\ (ident.pc = "returned" /\ ~ident.result.ok) =>
              ident.result.err \in WriteErrors

\* A run found the header without the key material, left by a cut write, and
\* returned a new identity.
C18_Witness ==
    /\ ident.pc = "returned"
    /\ FoundCut
    /\ ident.entry_file.bytes = <<KeyHeader>>
    /\ ident.result.ok
    /\ ident.result.key = KeyName(2)

\* What a seed that parses leads to, by itself: one insertion or one dial.
SeedOutcome(t) ==
    IF ExtractPeerId(t).some
    THEN [adds |-> <<[peer |-> ExtractPeerId(t).pid, addr |-> t]>>, dials |-> <<>>]
    ELSE [adds |-> <<>>, dials |-> <<t>>]

SeedRecord(i) ==
    [adds |-> [k \in 1..Len(AddsOf(i)) |->
                  [peer |-> AddsOf(i)[k].peer, addr |-> AddsOf(i)[k].addr]],
     dials |-> [k \in 1..Len(DialsOf(i)) |-> DialsOf(i)[k].addr]]

InSeedOrder(recs) == \A j, k \in 1..Len(recs) : j < k => recs[j].seed < recs[k].seed

\* C20: a seed that does not parse is reported once and causes nothing else;
\* every other seed, before or after it, leads to what it leads to by itself,
\* in the order of the list, and the loop goes through the whole list.
C20_BadSeedSkipped ==
    /\ \A i \in 1..Len(boot.env.pieces) :
          i < boot.i =>
            /\ (SeedText(i) # <<>> /\ ~SeedParses(i)) =>
                  /\ Len(SelectSeq(boot.invalid, LAMBDA x : x = i)) = 1
                  /\ AddsOf(i) = <<>> /\ DialsOf(i) = <<>>
            /\ SeedParses(i) =>
                  /\ ~Contains(boot.invalid, i)
                  /\ SeedRecord(i) = SeedOutcome(SeedText(i))
    /\ InSeedOrder(boot.adds) /\ InSeedOrder(boot.dials)
    /\ (boot.pc = "seeds" /\ boot.i <= Len(boot.env.pieces)) => ENABLED BootNext
    /\ (boot.pc = "loop" /\ boot.env.set) =>
          /\ boot.i = Len(boot.env.pieces) + 1
          /\ \A i \in 1..Len(boot.env.pieces) :
                SeedParses(i) => SeedRecord(i) = SeedOutcome(SeedText(i))

\* A list with an unparsable entry between a seed with a peer id and a seed
\* without one was processed to the end.
C20_Witness ==
    /\ boot.pc = "loop"
    /\ boot.env.pieces = <<AddrWithPeer, <<Junk>>, <<WS>> \o AddrNoPeer>>
    /\ boot.invalid = <<2>>
    /\ Len(boot.adds) = 1
    /\ Len(boot.dials) = 1
    /\ boot.dials[1].seed = 3

SeedsDone == boot.i = Len(boot.env.pieces) + 1

\* C21: where a seed list is given, the refresh is requested once, by the step
\* that follows the last seed and enters the event loop, and never again from
\* the loop; a refresh that is refused is recorded as refused and the loop is
\* entered and runs all the same. (Without a seed list there is no bootstrap
\* and no refresh.)
C21_OneRefreshAfterSeeds ==
    /\ [](/\ boot.pc \in {"start", "seeds"} => boot.refreshes = <<>>
          /\ boot.pc = "loop" =>
                /\ Len(boot.refreshes) = (IF boot.env.set THEN 1 ELSE 0)
                /\ boot.env.set =>
                      /\ SeedsDone
                      /\ boot.refreshes[1]
                            = (IF boot.adds = <<>> THEN "NoKnownPeers" ELSE "Ok")
                /\ ENABLED ServerOnOtherEvent
                /\ \A p \in Peers, as \in ListenAddrLists :
                      ENABLED ServerOnIdentifyReceived(p, as)
          /\ (boot.env.set /\ boot.refreshes # <<>>) => boot.pc = "loop")
    /\ [][boot.refreshes' # boot.refreshes =>
            /\ boot.pc = "seeds" /\ SeedsDone
            /\ boot'.pc = "loop"
            /\ Len(boot'.refreshes) = 1]_vars

\* The refresh was refused after a list whose only usable seed was dialled,
\* and the loop has since handled an identify report.
C21_Witness ==
    /\ boot.pc = "loop"
    /\ boot.refreshes = <<"NoKnownPeers">>
    /\ Len(boot.env.pieces) = 2
    /\ Len(boot.dials) = 1
    /\ boot.kad # NoEntries

ReadErrors == {"open", "read"}

\* C23 (as claimed): a key file that is there and cannot be opened or read
\* does not make load_or_create_identity fail: the call goes on to generate
\* an identity, so it never returns the open or the read failure, and main is
\* never stopped by one.
C23_UnreadableFallsThrough ==
    (ident.pc \in {"returned", "fatal"} /\ ident.entry_file.exists
        /\ ~ident.result.ok) =>
        ident.result.err \notin ReadErrors

----------------------------------------------------------------------------
(* Properties of the event loop and the handle, continued *)

\* The step is one iteration of the loop, and it handled an event of this kind.
Handled(kind) == steps' # steps /\ last_op'.kind = kind

\* The consumer's channel after an iteration that sent evs: the events are
\* queued behind those waiting, unless the consumer has dropped its end.
ChannelAfter(evs) == IF node.pc = "running" THEN node.events \o evs ELSE node.events

ErrorsIn(evs) == Cardinality({i \in 1..Len(evs) : evs[i].type = "Error"})

\* C24: the iteration that handles an outgoing connection error sends one
\* event, an Error, to the consumer and nothing else, keeps the task and the
\* waiting commands, and leaves the loop able to take the next command or
\* protocol event that is ready.
C24_ConnErrorNotFatal ==
    /\ [][Handled("OutgoingConnectionError") =>
            /\ Len(emitted') = 1
            /\ emitted'[1].type = "Error"
            /\ node'.events = ChannelAfter(emitted')
            /\ node.pc = "running" =>
                  ErrorsIn(node'.events) = ErrorsIn(node.events) + 1
            /\ node'.alive /\ node'.pc = node.pc
            /\ cmd_queue' = cmd_queue]_vars
    /\ []((last_op.kind = "OutgoingConnectionError" /\ node.alive /\ HasBudget) =>
            /\ cmd_queue # <<>> => ENABLED CmdBranch
            /\ swarm_ready => ENABLED SwarmBranch)

\* A command was processed right after an outgoing connection error: the
\* consumer's channel holds the Error and then the command's event.
C24_Witness ==
    /\ Len(node.events) = 2
    /\ node.events[1] = ErrorEvent("Connection error: dial")
    /\ node.events[2].type = "MessagePublished"
    /\ last_op.kind = "Publish"
    /\ node.alive

\* C25: the iteration that handles a failed closest-peers query emits nothing
\* and starts no query: the failed query is over, so no result and no
\* PeerDiscovery can come for it later. A query is started only by the
\* iteration that dequeues a FindPeer command, for that command's target.
C25_FailedQueryNotRetried ==
    /\ [][Handled("QueryErr") =>
            /\ emitted' = <<>>
            /\ queries # <<>>
            /\ \E i \in 1..Len(queries) : queries' = RemoveAt(queries, i)
            /\ UNCHANGED <<cmd_queue, shared_state>>]_vars
    /\ [][queries' # queries =>
            \/ /\ Handled("FindPeer")
               /\ cmd_queue # <<>> /\ Head(cmd_queue) = FindPeer(last_op'.pid)
               /\ queries' = Append(queries, last_op'.pid)
            \/ /\ Handled("QueryErr") \/ Handled("QueryOk")
               /\ Len(queries') = Len(queries) - 1]_vars
    /\ []("PeerDiscovery" \in EmittedTypes => last_op.kind = "QueryOk")

\* The only query in progress failed while a peer was connected: nothing was
\* emitted, nothing was recorded as discovered, no query is left.
C25_Witness ==
    /\ last_op.kind = "QueryErr"
    /\ queries = <<>>
    /\ emitted = <<>>
    /\ ConnectedKeys # {}
    /\ DiscoveredKeys = {}

\* C26: the iteration that handles identify information sends nothing to the
\* consumer and leaves alone all that the events of other iterations are made
\* from (the waiting commands, the queries in progress, the connections), so
\* the consumer sees the events it would see without it; a PeerDiscovery is
\* sent only by an iteration that handles a closest-peers result, and is one
\* of the events made from that result.
C26_IdentifyEmitsNothing ==
    [][/\ Handled("Identify") =>
             /\ emitted' = <<>>
             /\ UNCHANGED <<cmd_queue, queries, conns, last_conn, ever_connected>>
       /\ \A i \in 1..Len(emitted') :
             (steps' # steps /\ emitted'[i].type = "PeerDiscovery") =>
                 /\ Handled("QueryOk")
                 /\ emitted' = DiscoveryEvents(last_op'.peers)]_vars

\* Identify information with two addresses was handled while a query was in
\* progress: the routing table has the addresses, and nothing was emitted.
C26_Witness ==
    /\ last_op.kind = "Identify"
    /\ Len(last_op.addrs) = 2
    /\ \A i \in 1..2 : RoutingHas(routing, last_op.peer, last_op.addrs[i])
    /\ queries # <<>>
    /\ emitted = <<>>

\* C27: the iteration that handles a gossip message sends the consumer one
\* event and no other: MessageReceived with the peer the message came from and
\* the payload as text, every byte that is valid kept and every invalid one
\* replaced. Invalid bytes cause no Error and no drop, the task lives on, and
\* the loop can take whatever is ready next.
C27_MessageAlwaysDelivered ==
    /\ [][Handled("Message") =>
            LET bytes == last_op'.bytes IN
            /\ Len(emitted') = 1
            /\ emitted'[1].type = "MessageReceived"
            /\ emitted'[1].peer_id = to_string(last_op'.peer)
            /\ Len(emitted'[1].data) = Len(bytes)
            /\ \A i \in 1..Len(bytes) :
                  emitted'[1].data[i] =
                      (IF bytes[i] = GoodByte THEN GoodByte ELSE ReplacementChar)
            /\ node'.events = ChannelAfter(emitted')
            /\ ErrorsIn(node'.events) = ErrorsIn(node.events)
            /\ node'.alive /\ node'.pc = node.pc
            /\ cmd_queue' = cmd_queue]_vars
    /\ []((last_op.kind = "Message" /\ node.alive /\ HasBudget) =>
            /\ cmd_queue # <<>> => ENABLED CmdBranch
            /\ swarm_ready => ENABLED SwarmBranch)

\* The consumer was handed the event of a message whose payload had a valid
\* and an invalid byte.
C27_Witness ==
    /\ last_op.kind = "Message"
    /\ last_op.bytes = <<GoodByte, BadByte>>
    /\ node.ret.call = "next_event"
    /\ node.ret.ok
    /\ node.ret.value.type = "messageReceived"
    /\ node.ret.value.data = <<GoodByte, ReplacementChar>>

\* C28: the task ends in no step of its own and in no step of its callers:
\* not after an error, not once the handle with the only command sender is
\* dropped; only the executor giving up the task ends it. While it lives, and
\* within the iterations followed, it takes a command whenever one waits and
\* a protocol event whenever one is ready.
C28_NoTerminalState ==
    /\ [][(node.alive /\ ~node'.alive) => LoopGone]_vars
    /\ [](node.alive =>
            /\ node.pc \in {"running", "dropped"}
            /\ (HasBudget /\ cmd_queue # <<>>) => ENABLED CmdBranch
            /\ (HasBudget /\ swarm_ready) => ENABLED SwarmBranch)

\* After the handle was dropped the loop handled an outgoing connection error
\* and still has a command to take.
C28_Witness ==
    /\ node.pc = "dropped"
    /\ node.alive
    /\ steps > node.dropped_at
    /\ last_op.kind = "OutgoingConnectionError"
    /\ cmd_queue # <<>>
    /\ HasBudget

JsEvents(evs) == [i \in 1..Len(evs) |-> ToJs(evs[i])]
GotValues == [i \in 1..Len(node.consumer.got) |-> node.consumer.got[i].value]
Holders == {c \in Callers : node.consumer.callers[c] = "receiving"}

\* C29: what the callers of next_event have been handed, in the order they
\* were handed it, followed by what still waits in the channel, is what the
\* loop has sent, in the order it sent it: nothing is lost, repeated or
\* reordered, however far the consumer is behind. With calls pending at the
\* same time one call at most is at the receiver, and each event handed out
\* goes to that call alone.
C29_EventsInOrderOnce ==
    /\ [](/\ GotValues \o JsEvents(node.events) = JsEvents(node.consumer.sent)
          /\ Cardinality(Holders) <= 1
          /\ Holders = {c \in Callers : node.consumer.lock = c})
    /\ [][node.consumer.got' # node.consumer.got =>
            /\ Holders # {}
            /\ node.events # <<>>
            /\ node.consumer.got'
                  = Append(node.consumer.got,
                           [caller |-> node.consumer.lock,
                            value |-> ToJs(Head(node.events))])
            /\ node'.events = Tail(node.events)
            /\ node'.consumer.sent = node.consumer.sent]_vars

\* Two callers got one event each, in the order sent, and both have called
\* again: one is at the receiver, the other waits for the lock, and a third
\* event is in the channel.
C29_Witness ==
    /\ Len(node.consumer.got) = 2
    /\ node.consumer.got[1].caller # node.consumer.got[2].caller
    /\ node.consumer.got[1].value.type = "connected"
    /\ node.consumer.got[2].value.type = "messageReceived"
    /\ Len(node.events) = 1
    /\ node.consumer.callers[node.consumer.got[1].caller] = "locking"
    /\ node.consumer.callers[node.consumer.got[2].caller] = "receiving"

\* C30: subscriptions is the docstore topic and nothing else from the moment
\* SharedState is created, and the relay list stays as created: no command,
\* no protocol event, no notification that a peer subscribed or unsubscribed
\* changes either.
C30_SubscriptionsFixed ==
    /\ shared_state.subscriptions = <<DocstoreTopic>>
    /\ shared_state.relays = InitialSharedState.relays

\* A peer's unsubscription was handled after connections, listen addresses
\* and discoveries had changed the rest of SharedState.
C30_Witness ==
    /\ last_op.kind = "Subscription"
    /\ ~last_op.subscribed
    /\ ConnectedKeys # {}
    /\ shared_state.listen_addrs # <<>>
    /\ shared_state.subscriptions = <<DocstoreTopic>>

\* C31 (as claimed): a peer with a connection that was reported established
\* and not yet reported closed is a key of connected_peers.
C31_ConnectedWhileOpen ==
    \A p \in Peers : conns[p] > 0 => to_string(p) \in ConnectedKeys

\* The addresses a result reports for the peer with textual id k, if any.
ReportedFor(R, k) == {AddrStrings(R[i].addrs) : i \in {j \in 1..Len(R) : to_string(R[j].peer_id) = k}}

Got(type, p) ==
    \E i \in 1..Len(node.consumer.got) :
        /\ node.consumer.got[i].value.type = type
        /\ node.consumer.got[i].value.peer_id = to_string(p)

\* The loop has sent an event of this type about this peer.
Sent(type, p) ==
    \E i \in 1..Len(node.consumer.sent) :
        /\ node.consumer.sent[i].type = type
        /\ node.consumer.sent[i].peer_id = to_string(p)

\* C33: in every state in which something other than the loop can run, the
\* state already has what the events sent so far announce. A consumer that
\* was handed Connected for a peer, no Disconnected for it having been sent
\* since, finds the peer in connected_peers; one that was handed
\* PeerDiscovery for a peer finds it in discovered_peers. The same holds for
\* events sent and not yet handed out, so no step of the consumer falls
\* between an emission and its update.
C33_UpdateWithEmission ==
    \A p \in Peers :
        /\ (Got("connected", p) /\ last_conn[p] = "Connected") =>
              to_string(p) \in ConnectedKeys
        /\ Got("peerDiscovery", p) => to_string(p) \in DiscoveredKeys
        /\ (Sent("Connected", p) /\ last_conn[p] = "Connected") =>
              to_string(p) \in ConnectedKeys
        /\ Sent("PeerDiscovery", p) => to_string(p) \in DiscoveredKeys

\* The consumer was handed Connected and then PeerDiscovery for the same
\* peer, which is in both maps.
C33_Witness ==
    /\ Len(node.consumer.got) = 2
    /\ node.consumer.got[1].value.type = "connected"
    /\ node.consumer.got[2].value.type = "peerDiscovery"
    /\ node.consumer.got[1].value.peer_id = node.consumer.got[2].value.peer_id
    /\ node.consumer.got[1].value.peer_id \in ConnectedKeys \cap DiscoveredKeys

====
